---- MODULE Spec2Model ----
(***************************************************************************)
(* Order & cart transaction lifecycle of the AgriHub mobile client.        *)
(*                                                                         *)
(*   cart store      src/unnamed/part_003 (useCartStore)                   *)
(*   cart screen     src/frontend/app/cart.tsx                             *)
(*   product details src/unnamed/part_003 (ProductDetails)                 *)
(*   checkout        src/frontend/app/checkout.tsx                         *)
(*   farmer orders   src/frontend/app/farmer/index.tsx                     *)
(*   notifications   src/frontend/src/services/socket.ts                   *)
(*   root layout     src/frontend/app/_layout.tsx                          *)
(*   auth store      src/unnamed/part_003 (useAuthStore)                   *)
(*   REST wrappers   src/frontend/src/services/api.ts                      *)
(*                                                                         *)
(* The remote service is not part of the client sources; it is modelled    *)
(* from the API contract of the specification (section 6) as an            *)
(* environment that may also fail any request.                             *)
(***************************************************************************)
EXTENDS Integers, Sequences, FiniteSets, TLC

\* ------------------------------------------------------------------ bounds
MaxProducts == 1
MaxQty == 2
MaxCalls == 2
MaxAddrLen == 1
MaxInv == 2
MaxOrders == 1
MaxListed == 2
MaxReqs == 2
MaxSockets == 2
MaxListeners == 2
MaxUsers == 2
MaxAttempts == 6
MaxAuthCalls == 2

Products == 1..MaxProducts
CallIds == 1..MaxCalls
InvIds == 1..MaxInv
OrderIds == 1..MaxOrders
ListedIds == 1..MaxListed
ReqIds == 1..MaxReqs
SocketIds == 1..MaxSockets
Callbacks == 1..MaxListeners
Users == 1..MaxUsers
AuthIds == 1..MaxAuthCalls

\* ------------------------------------------------------------- data model
\* Unit price of a product, owned by the remote service.
Price(p) == 70 - 20 * p

\* The value of CartItem.product when the reference does not resolve.
NoProduct == [id |-> 0, price |-> 0]

Product(p) == [id |-> p, price |-> Price(p)]

\* CartItem as the service reports it; one cart line per product.
CartItem(p, q, gone) ==
  [id |-> p, product_id |-> p, quantity |-> q,
   product |-> IF p \in gone THEN NoProduct ELSE Product(p)]

HasProduct(item) == item.product.id # 0

\* quantity * product.price of one line; a line without product has none.
Subtotal(item) == IF HasProduct(item) THEN item.quantity * item.product.price ELSE 0

RECURSIVE SumSubtotals(_)
SumSubtotals(s) == IF s = <<>> THEN 0 ELSE Subtotal(Head(s)) + SumSubtotals(Tail(s))

RECURSIVE ItemsFrom(_, _, _)
ItemsFrom(cart, gone, p) ==
  IF p > MaxProducts THEN <<>>
  ELSE (IF cart[p] > 0 THEN <<CartItem(p, cart[p], gone)>> ELSE <<>>)
       \o ItemsFrom(cart, gone, p + 1)

\* Body of GET /cart: the items and the total the service computed for them.
CartResponse(cart, gone) ==
  LET its == ItemsFrom(cart, gone, 1)
  IN  [items |-> its, total |-> SumSubtotals(its)]

EmptyResponse == [items |-> <<>>, total |-> 0]

ItemIds(its) == {its[k].id : k \in 1..Len(its)}

\* ------------------------------------------------------------------ state
VARIABLES
  items, total,            \* useCartStore state; its `loading` only drives a spinner
  calls,                   \* the store calls, one record per call
  settled,                 \* the store promise that settled last
  srvCart, srvGone,        \* remote service: cart lines, unresolvable products
  updatingId, alert,       \* CartScreen: busy item, open confirm dialog
  route,                   \* router: current screen
  address, checkoutLoading,\* CheckoutScreen state of the mounted instance
  inv,                     \* handlePayment invocations, one record each
  ended,                   \* the handlePayment invocation that ended last
  srvPayments, srvOrders,  \* remote service: captured payments, orders
  orders, farmerUpdatingId,\* FarmerOrdersScreen: cached orders, busy order
  farmerAlert,             \* FarmerOrdersScreen: the alert that is open
  reqs,                    \* FarmerOrdersScreen: its requests in flight
  srvStatus,               \* remote service: status of each order
  socket, listeners,       \* SocketService: this.socket, this.listeners
  conns,                   \* the sockets io() has created, with their state
  event,                   \* the notification the service emitted last
  removed,                 \* the callback offNotification took out last
  room,                    \* the user id each socket joins the room of
  rootUser,                \* RootLayout: the user its effect ran with last
  attempts,                \* failed reconnection attempts of each socket
  user, token,             \* useAuthStore state; a token is written as the
  isAuthenticated,         \*   id of the user it was issued to, 0 is null
  storage,                 \* AsyncStorage: the item 'token'
  authCalls,               \* the calls that read the stored token, one record each
  awaiting,                \* the calls awaiting AsyncStorage, oldest first
  srvTokens                \* remote service: the tokens it accepts

cartVars == <<items, total, calls, settled, srvCart, srvGone, updatingId, alert>>
checkoutVars == <<route, address, checkoutLoading, inv, ended, srvPayments, srvOrders>>
farmerVars == <<orders, farmerUpdatingId, farmerAlert, reqs, srvStatus>>
socketVars == <<socket, listeners, conns, event, removed, room, rootUser, attempts>>
authVars == <<user, token, isAuthenticated, storage, authCalls, awaiting, srvTokens>>
vars == <<cartVars, checkoutVars, farmerVars, socketVars, authVars>>

IdleCall ==
  [op |-> "none", pc |-> "idle", arg |-> 0, qty |-> 0, ok |-> FALSE,
   resp |-> EmptyResponse, origin |-> "none", fetchStarted |-> FALSE]

\* A call that has returned to its caller.
DoneCall == [IdleCall EXCEPT !.pc = "done"]

NoneSettled ==
  [op |-> "none", origin |-> "none", result |-> "none",
   fetchStarted |-> FALSE, fetchFailed |-> FALSE]

NoAlert == [item |-> 0, via |-> "none"]

CartInit ==
  /\ items = <<>>
  /\ total = 0
  /\ calls = [c \in CallIds |-> IdleCall]
  /\ settled = NoneSettled
  /\ srvCart = [p \in Products |-> 0]
  /\ srvGone = {}
  /\ updatingId = 0
  /\ alert = NoAlert

NoBody == [shipping_address |-> <<>>, items |-> <<>>]

IdleInv ==
  [pc |-> "idle", mounted |-> FALSE, address |-> <<>>, items |-> <<>>,
   payReqs |-> 0, orderReqs |-> 0, payment |-> "none", order |-> "none",
   body |-> NoBody, error |-> "none"]

\* An invocation that has run to its end.
DoneInv == [IdleInv EXCEPT !.pc = "done"]

NoneEnded ==
  [outcome |-> "none", items |-> <<>>, payReqs |-> 0, orderReqs |-> 0,
   payment |-> "none", order |-> "none", transitions |-> <<>>,
   message |-> "none"]

CheckoutIdle ==
  /\ address = <<>>
  /\ checkoutLoading = FALSE
  /\ inv = [k \in InvIds |-> IdleInv]
  /\ ended = NoneEnded
  /\ srvPayments = 0
  /\ srvOrders = <<>>

\* ------------------------------------------------- order status (data)
\* Order.status, in the order of fulfilment.
Chain == <<"pending", "confirmed", "shipped", "delivered">>
Statuses == {Chain[n] : n \in 1..Len(Chain)}

\* Position of a status in the chain.
Rank(status) == CHOOSE n \in 1..Len(Chain) : Chain[n] = status

\* The status one step forward; the last one has none.
NextStatus(status) ==
  IF Rank(status) < Len(Chain) THEN Chain[Rank(status) + 1] ELSE "none"

\* Body of GET /orders: the orders of the farmer with their status.
OrdersResponse(st) == [k \in DOMAIN st |-> [id |-> k, status |-> st[k]]]

IdleReq == [pc |-> "idle", order |-> 0, target |-> "none", ok |-> FALSE, data |-> <<>>]

FarmerIdle ==
  /\ orders = <<>>
  /\ farmerUpdatingId = 0
  /\ farmerAlert = "none"
  /\ reqs = [r \in ReqIds |-> IdleReq]
  /\ srvStatus = [o \in OrderIds |-> "pending"]

\* No notification emitted yet.
NoEvent == [sent |-> FALSE, registered |-> {}, invoked |-> [cb \in Callbacks |-> 0]]

\* No callback taken out and not registered again since.
NoneRemoved == [callback |-> 0, copies |-> 0, events |-> 0, received |-> 0]

\* The SocketService singleton after construction.
SocketIdle ==
  /\ socket = 0
  /\ listeners = <<>>
  /\ conns = [s \in SocketIds |-> "none"]
  /\ event = NoEvent
  /\ removed = NoneRemoved
  /\ room = [s \in SocketIds |-> 0]
  /\ rootUser = 0
  /\ attempts = [s \in SocketIds |-> 0]

IdleAuth ==
  [op |-> "none", pc |-> "idle", user |-> 0, token |-> 0, sent |-> 0, ok |-> FALSE,
   denied |-> FALSE]

\* useAuthStore after create(), nothing stored, no token issued.
AuthIdle ==
  /\ user = 0
  /\ token = 0
  /\ isAuthenticated = FALSE
  /\ storage = 0
  /\ authCalls = [a \in AuthIds |-> IdleAuth]
  /\ awaiting = <<>>
  /\ srvTokens = {}

Init == CartInit /\ CheckoutIdle /\ FarmerIdle /\ SocketIdle /\ AuthIdle /\ route = "cart"

\* ------------------------------------------------------- remote service
\* POST /cart {product_id, quantity}
SrvAdd(cart, p, q) == [cart EXCEPT ![p] = @ + q]
SrvAddValid(cart, gone, p, q) == p \notin gone /\ q >= 1 /\ cart[p] + q <= MaxQty

\* PUT /cart/{itemId} {quantity}
SrvUpdate(cart, i, q) == [cart EXCEPT ![i] = q]
SrvUpdateValid(cart, i, q) == cart[i] > 0 /\ q >= 1 /\ q <= MaxQty

\* DELETE /cart/{itemId}
SrvRemove(cart, i) == [cart EXCEPT ![i] = 0]
SrvRemoveValid(cart, i) == cart[i] > 0

\* DELETE /cart
SrvClear(cart) == [p \in Products |-> 0]

SrvApply(call, cart) ==
  CASE call.op = "add" -> SrvAdd(cart, call.arg, call.qty)
    [] call.op = "update" -> SrvUpdate(cart, call.arg, call.qty)
    [] call.op = "remove" -> SrvRemove(cart, call.arg)
    [] call.op = "clear" -> SrvClear(cart)

SrvValid(call, cart, gone) ==
  CASE call.op = "add" -> SrvAddValid(cart, gone, call.arg, call.qty)
    [] call.op = "update" -> SrvUpdateValid(cart, call.arg, call.qty)
    [] call.op = "remove" -> SrvRemoveValid(cart, call.arg)
    [] call.op = "clear" -> TRUE

\* ------------------------------------------------------------ cart store
\* A request is handled by the service in the step in which it is sent and
\* only its response is delayed: sending touches nothing but the record of
\* the call, so a request handled later is the same behaviour with the send
\* moved up to the handling. A record goes
\*   idle -> mutResp -> getResp -> done     (addToCart, updateQuantity, removeFromCart)
\*   idle -> mutResp -> done                (clearCart, or a failed mutation)
\*   idle -> getResp -> done                (fetchCart)
Free(c) == calls[c].pc = "idle"

\* The HTTP request a store mutation sent.
Request(call) ==
  CASE call.pc = "mutResp" /\ call.op = "add" ->
         [method |-> "POST", item |-> call.arg, quantity |-> call.qty]
    [] call.pc = "mutResp" /\ call.op = "update" ->
         [method |-> "PUT", item |-> call.arg, quantity |-> call.qty]
    [] call.pc = "mutResp" /\ call.op = "remove" ->
         [method |-> "DELETE", item |-> call.arg, quantity |-> 0]
    [] call.pc = "mutResp" /\ call.op = "clear" ->
         [method |-> "DELETE", item |-> 0, quantity |-> 0]
    [] OTHER -> [method |-> "NONE", item |-> 0, quantity |-> 0]

\* The outcomes of a request: answered 2xx; failed without effect (rejected
\* by the service or lost on the way there); handled with the answer lost.
Outcomes == {"ok", "failed", "lost"}

\* cartAPI.get(): GET /cart is answered with the cart of that moment, or fails.
ServeGet(call, outcome) ==
  [call EXCEPT !.pc = "getResp", !.ok = (outcome = "ok"),
               !.resp = IF outcome = "ok" THEN CartResponse(srvCart, srvGone) ELSE EmptyResponse]

\* addToCart, updateQuantity and removeFromCart are the same code after
\* their request; from there on a record names them alike.
Kind(op) == IF op \in {"add", "update", "remove"} THEN "mutation" ELSE op

StartFetchSkipped(call, outcome) == [call EXCEPT !.pc = "done", !.op = Kind(@)]

\* fetchCart up to its await: cartAPI.get() goes out.
StartFetch(call, outcome) ==
  ServeGet([call EXCEPT !.op = Kind(@), !.fetchStarted = TRUE, !.arg = 0, !.qty = 0], outcome)

\* How a call that returns settles its promise.
Settle(call, result, fetchFailed) ==
  [op |-> Kind(call.op), origin |-> call.origin, result |-> result,
   fetchStarted |-> call.fetchStarted, fetchFailed |-> fetchFailed]

\* fetchCart() called on its own (CartScreen mount effect).
fetchCart(c, outcome) ==
  /\ Free(c)
  /\ calls' = [calls EXCEPT ![c] = StartFetch([IdleCall EXCEPT !.op = "fetch", !.origin = "mount"], outcome)]
  /\ UNCHANGED <<items, total, settled, srvCart, srvGone, updatingId, alert, checkoutVars, farmerVars, authVars, socketVars>>

\* The caller resumes in the same turn in which the store promise settles:
\* the CartScreen handlers run `finally { setUpdatingId(null) }`.
ScreenOrigins == {"quantity", "remove", "redirect"}
Settled(c) == IF calls[c].origin \in ScreenOrigins THEN 0 ELSE updatingId

\* What the success branch of fetchCart writes to the store.
FetchedItems(resp) == resp.items
FetchedTotalStale(resp) == total
FetchedTotal(resp) == resp.total

\* fetchCart, try branch after the await.
fetchCartOk(c) ==
  /\ calls[c].pc = "getResp" /\ calls[c].ok
  /\ items' = FetchedItems(calls[c].resp)
  /\ total' = FetchedTotal(calls[c].resp)
  /\ calls' = [calls EXCEPT ![c] = DoneCall]
  /\ settled' = Settle(calls[c], "ok", FALSE)
  /\ updatingId' = Settled(c)
  /\ UNCHANGED <<srvCart, srvGone, alert, checkoutVars, farmerVars, authVars, socketVars>>

\* What the catch branch of fetchCart leaves in the store, and how the
\* promise of fetchCart settles after it.
FetchCatchItemsReset(old) == <<>>
FetchCatchItems(old) == old
FetchCatchResult == "ok"

\* fetchCart, catch branch: logs, set({loading: false}), no rethrow.
fetchCartCatch(c) ==
  /\ calls[c].pc = "getResp" /\ ~calls[c].ok
  /\ items' = FetchCatchItems(items)
  /\ calls' = [calls EXCEPT ![c] = DoneCall]
  /\ settled' = Settle(calls[c], FetchCatchResult, TRUE)
  /\ updatingId' = Settled(c)
  /\ UNCHANGED <<total, srvCart, srvGone, alert, checkoutVars, farmerVars, authVars, socketVars>>

\* The cart of the service after a mutation request with the given outcome.
Served(call, outcome) ==
  IF outcome = "failed" THEN srvCart ELSE SrvApply(call, srvCart)

\* A store mutation up to its await: the cartAPI request goes out.
StartMutation(op, arg, qty, origin, outcome) ==
  [IdleCall EXCEPT !.op = op, !.pc = "mutResp", !.arg = arg, !.qty = qty,
                   !.origin = origin, !.ok = (outcome = "ok")]

\* A request has one of the outcomes the service allows for it.
Allowed(call, outcome) == outcome = "failed" \/ SrvValid(call, srvCart, srvGone)

Mutate(c, op, arg, qty, origin, outcome) ==
  LET call == StartMutation(op, arg, qty, origin, outcome)
  IN  /\ Free(c)
      /\ Allowed(call, outcome)
      /\ calls' = [calls EXCEPT ![c] = call]
      /\ srvCart' = Served(call, outcome)

\* addToCart(productId, quantity)
addToCart(c, p, q, outcome) ==
  /\ Mutate(c, "add", p, q, "store", outcome)
  /\ UNCHANGED <<items, total, settled, srvGone, updatingId, alert, checkoutVars, farmerVars, authVars, socketVars>>

\* updateQuantity(cartItemId, quantity)
updateQuantity(c, i, q, outcome) ==
  /\ Mutate(c, "update", i, q, "store", outcome)
  /\ UNCHANGED <<items, total, settled, srvGone, updatingId, alert, checkoutVars, farmerVars, authVars, socketVars>>

\* removeFromCart(cartItemId)
removeFromCart(c, i, outcome) ==
  /\ Mutate(c, "remove", i, 0, "store", outcome)
  /\ UNCHANGED <<items, total, settled, srvGone, updatingId, alert, checkoutVars, farmerVars, authVars, socketVars>>

\* clearCart()
clearCart(c, outcome) ==
  /\ Mutate(c, "clear", 0, 0, "store", outcome)
  /\ UNCHANGED <<items, total, settled, srvGone, updatingId, alert, checkoutVars, farmerVars, authVars, socketVars>>

\* After a successful mutation request, does the operation go on to fetchCart?
RefetchAfter(op) == op \in {"add", "update", "remove"}

\* addToCart / updateQuantity / removeFromCart after `await cartAPI.x()`:
\* `await get().fetchCart()`.
mutationThenFetch(c, outcome) ==
  LET next == StartFetch(calls[c], outcome)
  IN  /\ calls[c].pc = "mutResp" /\ calls[c].ok
      /\ RefetchAfter(calls[c].op)
      /\ outcome # "lost"
      /\ IF next.pc = "done"
           THEN /\ calls' = [calls EXCEPT ![c] = DoneCall]
                /\ settled' = Settle(next, "ok", FALSE)
                /\ updatingId' = Settled(c)
           ELSE /\ calls' = [calls EXCEPT ![c] = next]
                /\ UNCHANGED <<settled, updatingId>>
      /\ UNCHANGED <<items, total, srvCart, srvGone, alert, checkoutVars, farmerVars, authVars, socketVars>>

\* What clearCart writes after `await cartAPI.clear()`.
ClearedItemsKept == items
ClearedItems == <<>>
ClearedTotal == 0

\* clearCart after `await cartAPI.clear()`: set({items: [], total: 0}).
clearCartOk(c) ==
  /\ calls[c].pc = "mutResp" /\ calls[c].ok
  /\ calls[c].op = "clear"
  /\ items' = ClearedItems
  /\ total' = ClearedTotal
  /\ calls' = [calls EXCEPT ![c] = DoneCall]
  /\ settled' = Settle(calls[c], "ok", FALSE)
  /\ updatingId' = Settled(c)
  /\ UNCHANGED <<srvCart, srvGone, alert, checkoutVars, farmerVars, authVars, socketVars>>

\* What the catch branch of a mutation leaves in the store, and how the
\* promise settles after it (`throw error`).
MutationCatchItems(old) == old
MutationCatchResultSwallowed == "ok"
MutationCatchResult == "error"

\* catch branch of addToCart / updateQuantity / removeFromCart / clearCart.
mutationCatch(c) ==
  /\ calls[c].pc = "mutResp" /\ ~calls[c].ok
  /\ items' = MutationCatchItems(items)
  /\ calls' = [calls EXCEPT ![c] = DoneCall]
  /\ settled' = Settle(calls[c], MutationCatchResult, FALSE)
  /\ updatingId' = Settled(c)
  /\ UNCHANGED <<total, srvCart, srvGone, alert, checkoutVars, farmerVars, authVars, socketVars>>

\* ----------------------------------------------------------- cart screen
Rendered(i) == i \in ItemIds(items)

\* item.quantity of the rendered line of an item
Quantity(i) == items[CHOOSE k \in 1..Len(items) : items[k].id = i].quantity
Enabled(i) == Rendered(i) /\ updatingId # i /\ alert = NoAlert

\* Is a quantity update sent to the confirm-and-remove path?
RedirectsToRemoveBelowZero(newQuantity) == newQuantity < 0
RedirectsToRemove(newQuantity) == newQuantity < 1

\* handleUpdateQuantity(itemId, newQuantity)
handleUpdateQuantity(c, i, newQuantity, outcome) ==
  /\ Enabled(i)
  /\ IF RedirectsToRemove(newQuantity)
       THEN /\ alert' = [item |-> i, via |-> "redirect"]
            /\ UNCHANGED <<calls, updatingId, srvCart>>
       ELSE /\ updatingId' = i
            /\ Mutate(c, "update", i, newQuantity, "quantity", outcome)
            /\ alert' = alert
  /\ UNCHANGED <<items, total, settled, srvGone, checkoutVars, farmerVars, authVars, socketVars>>

\* handleRemoveItem(itemId) from the trash button: opens the confirm dialog.
handleRemoveItem(i) ==
  /\ Enabled(i)
  /\ alert' = [item |-> i, via |-> "remove"]
  /\ UNCHANGED <<items, total, calls, settled, srvCart, srvGone, updatingId, checkoutVars, farmerVars, authVars, socketVars>>

\* 'Cancel' in the confirm dialog.
alertCancel ==
  /\ alert # NoAlert
  /\ alert' = NoAlert
  /\ UNCHANGED <<items, total, calls, settled, srvCart, srvGone, updatingId, checkoutVars, farmerVars, authVars, socketVars>>

\* 'Remove' in the confirm dialog: setUpdatingId(itemId); removeFromCart(itemId).
alertRemove(c, outcome) ==
  /\ alert # NoAlert
  /\ updatingId' = alert.item
  /\ Mutate(c, "remove", alert.item, 0, alert.via, outcome)
  /\ alert' = NoAlert
  /\ UNCHANGED <<items, total, settled, srvGone, checkoutVars, farmerVars, authVars, socketVars>>

\* ProductDetails.handleAddToCart: cartAPI.add(product.id, 1) without the
\* store; the alert that follows does not touch the cart cache.
handleAddToCart(p) ==
  /\ SrvAddValid(srvCart, srvGone, p, 1)
  /\ srvCart' = SrvAdd(srvCart, p, 1)
  /\ UNCHANGED <<items, total, calls, settled, srvGone, updatingId, alert, checkoutVars, farmerVars, authVars, socketVars>>

\* -------------------------------------------------------------- checkout
Chars == {" ", "x"}
Addresses == UNION {[1..n -> Chars] : n \in 0..MaxAddrLen}

IsSpace(ch) == ch = " "

RECURSIVE TrimStart(_)
TrimStart(s) == IF s # <<>> /\ IsSpace(Head(s)) THEN TrimStart(Tail(s)) ELSE s

RECURSIVE TrimEnd(_)
TrimEnd(s) ==
  IF s # <<>> /\ IsSpace(s[Len(s)]) THEN TrimEnd(SubSeq(s, 1, Len(s) - 1)) ELSE s

\* String.prototype.trim
Trim(s) == TrimEnd(TrimStart(s))

\* items.find(item => !item.product) found something
InvalidItemIgnored(its) == FALSE
InvalidItem(its) == \E k \in 1..Len(its) : ~HasProduct(its[k])

\* The validation of handlePayment: which early return is taken, if any.
Precheck(addr, its) ==
  IF Trim(addr) = <<>> THEN "noAddress"
  ELSE IF Len(its) = 0 THEN "emptyCart"
  ELSE IF InvalidItem(its) THEN "invalidItem"
  ELSE "pass"

\* items.map(item => ({product_id: item.product!.id, quantity: item.quantity}))
OrderItemsPriced(its) ==
  [k \in 1..Len(its) |-> [product_id |-> its[k].product.id, quantity |-> its[k].quantity,
                          price |-> its[k].product.price]]
OrderItems(its) ==
  [k \in 1..Len(its) |-> [product_id |-> its[k].product.id, quantity |-> its[k].quantity]]

\* Body of POST /orders as orderAPI.create sends it.
OrderBody(addr, its) == [shipping_address |-> addr, items |-> OrderItems(its)]

\* onChangeText of the address input: a character is typed or deleted.
setAddress(a) ==
  /\ route = "checkout"
  /\ \/ Len(a) = Len(address) + 1 /\ SubSeq(a, 1, Len(address)) = address
     \/ Len(address) = Len(a) + 1 /\ SubSeq(address, 1, Len(a)) = a
  /\ address' = a
  /\ UNCHANGED <<cartVars, farmerVars, authVars, socketVars, route, checkoutLoading, inv, ended, srvPayments, srvOrders>>

FreeInv(k) == inv[k].pc = "idle" /\ \A j \in InvIds : j < k => inv[j].pc # "idle"

\* fetch() rejects when the service is not reached or its answer is lost;
\* the message of that error does not name the endpoint.
NetworkError == "Network request failed"

\* Why an awaited request throws: the answer is not 2xx, or fetch rejects.
\* Which of the two it is shows when the await resumes.
Causes == {"status", "network"}

\* The message of the error `paymentAPI.process()` throws: its own on a
\* non-2xx answer, the one of fetch otherwise.
PaymentError(cause) ==
  IF cause = "status" THEN "Failed to process payment" ELSE NetworkError

\* The message of the error `orderAPI.create()` throws.
OrderError(cause) ==
  IF cause = "status" THEN "Failed to create order" ELSE NetworkError

\* Alert.alert('Error', error.message || 'Order creation failed')
CatchMessage(error) == IF error = "" THEN "Order creation failed" ELSE error

\* How an invocation that returns is remembered: what it was invoked with,
\* what it requested and got, the routes it navigated to and the text of
\* the 'Error' alert of its catch branch.
End(i, outcome, transitions) ==
  [outcome |-> outcome, items |-> i.items, payReqs |-> i.payReqs,
   orderReqs |-> i.orderReqs, payment |-> i.payment, order |-> i.order,
   transitions |-> transitions,
   message |-> IF outcome = "error" THEN CatchMessage(i.error) ELSE "none"]

\* The outcomes of POST /payment/process: answered 2xx with success true or
\* false; failed without a capture; captured with no 2xx answer. As with
\* the cart requests, the service handles the request when it is sent.
PayOutcomes == {"success", "declined", "failed", "lost"}

Captured(outcome) == outcome \in {"success", "lost"}

\* What `await paymentAPI.process()` gives the handler.
PaymentResultUnchecked(outcome) ==
  IF outcome = "declined" THEN "declined" ELSE "success"
PaymentResult(outcome) ==
  IF outcome \in {"success", "declined"} THEN outcome ELSE "threw"

\* The screen of the invocations in flight is unmounted; they keep running.
Unmounted == [k \in InvIds |-> IF inv[k].pc \in {"idle", "done"} THEN inv[k]
                               ELSE [inv[k] EXCEPT !.mounted = FALSE]]

\* Navigating from a checkout screen to another route unmounts it, and its
\* state (address, loading) goes with it.
Leaves(to) == route = "checkout" /\ to # "checkout"

\* finally { setLoading(false) }: a no-op once the screen of the invocation
\* is unmounted.
FinallyLoading(k) == IF inv[k].mounted THEN FALSE ELSE checkoutLoading

\* The end of an invocation: the routes it navigates to, then `finally`.
Finish(k, i, outcome, transitions, to) ==
  /\ ended' = End(i, outcome, transitions)
  /\ route' = to
  /\ inv' = [(IF Leaves(to) THEN Unmounted ELSE inv) EXCEPT ![k] = DoneInv]
  /\ address' = IF Leaves(to) THEN <<>> ELSE address
  /\ checkoutLoading' = IF Leaves(to) THEN FALSE ELSE FinallyLoading(k)

\* The payment requests of one handlePayment: the await stands once in the
\* try block, outside any loop, and the catch does not resend.
PaymentAttemptsRetried == <<"POST /payment/process", "POST /payment/process">>
PaymentAttempts == <<"POST /payment/process">>

\* handlePayment up to its first await. The Pay button is disabled while
\* `loading` is set.
handlePayment(k, outcome) ==
  /\ route = "checkout"
  /\ ~checkoutLoading
  /\ FreeInv(k)
  /\ LET check == Precheck(address, items)
         started == [IdleInv EXCEPT !.mounted = TRUE, !.address = address, !.items = items]
     IN  IF check = "pass"
           THEN /\ checkoutLoading' = TRUE
                /\ inv' = [inv EXCEPT ![k] =
                             [started EXCEPT !.pc = "payResp", !.payReqs = Len(PaymentAttempts),
                                             !.payment = PaymentResult(outcome)]]
                /\ srvPayments' = IF Captured(outcome) THEN srvPayments + Len(PaymentAttempts)
                                   ELSE srvPayments
                /\ UNCHANGED <<route, address, ended>>
           ELSE /\ outcome = "failed"
                /\ Finish(k, started, check, <<>>, IF check = "emptyCart" THEN "cart" ELSE route)
                /\ srvPayments' = srvPayments
  /\ UNCHANGED <<cartVars, farmerVars, authVars, socketVars, srvOrders>>

\* Does handlePayment go on to orderAPI.create after this payment result?
ProceedsToOrderAlways(payment) == TRUE
ProceedsToOrder(payment) == payment = "success"

\* The outcomes of POST /orders: answered 2xx; failed without an order;
\* recorded with no 2xx answer.
OrderOutcomes == {"ok", "failed", "lost"}

Recorded(outcome) == outcome \in {"ok", "lost"}

\* handlePayment after `await paymentAPI.process()` resolved.
paymentResolved(k, outcome) ==
  /\ inv[k].pc = "payResp" /\ inv[k].payment # "threw"
  /\ IF ProceedsToOrder(inv[k].payment)
       THEN LET body == OrderBody(inv[k].address, inv[k].items)
            IN  /\ inv' = [inv EXCEPT ![k].pc = "orderResp", ![k].orderReqs = @ + 1,
                                       ![k].body = body,
                                       ![k].order = IF outcome = "ok" THEN "created" ELSE "threw"]
                /\ srvOrders' = IF Recorded(outcome) THEN Append(srvOrders, body.items)
                                ELSE srvOrders
                /\ UNCHANGED <<route, address, checkoutLoading, ended>>
       ELSE /\ outcome = "failed"
            /\ Finish(k, inv[k], "failure", <<"/payment/failure">>, "/payment/failure")
            /\ srvOrders' = srvOrders
  /\ UNCHANGED <<cartVars, farmerVars, authVars, socketVars, srvPayments>>

\* The routes the catch branch of handlePayment navigates to.
CatchTransitionsToFailure == <<"/payment/failure">>
CatchTransitions == <<>>

\* handlePayment, catch branch: Alert.alert('Error', ...), then finally.
CatchCheckout(k, error) ==
  Finish(k, [inv[k] EXCEPT !.error = error], "error", CatchTransitions,
         IF CatchTransitions = <<>> THEN route ELSE CatchTransitions[Len(CatchTransitions)])

\* `await paymentAPI.process()` threw.
paymentThrew(k, cause) ==
  /\ inv[k].pc = "payResp" /\ inv[k].payment = "threw"
  /\ CatchCheckout(k, PaymentError(cause))
  /\ UNCHANGED <<cartVars, farmerVars, authVars, socketVars, srvPayments, srvOrders>>

\* handlePayment after `await orderAPI.create()` resolved:
\* router.replace('/payment/success'), then finally.
orderResolved(k) ==
  /\ inv[k].pc = "orderResp" /\ inv[k].order = "created"
  /\ Finish(k, inv[k], "success", <<"/payment/success">>, "/payment/success")
  /\ UNCHANGED <<cartVars, farmerVars, authVars, socketVars, srvPayments, srvOrders>>

\* `await orderAPI.create()` threw.
orderThrew(k, cause) ==
  /\ inv[k].pc = "orderResp" /\ inv[k].order = "threw"
  /\ CatchCheckout(k, OrderError(cause))
  /\ UNCHANGED <<cartVars, farmerVars, authVars, socketVars, srvPayments, srvOrders>>

\* A CheckoutScreen is mounted: 'Proceed to Checkout' on the cart screen or
\* 'Try Again' on the failure screen. useState gives it a fresh state.
enterCheckout ==
  /\ route \in {"cart", "/payment/failure"}
  /\ route' = "checkout"
  /\ address' = <<>>
  /\ checkoutLoading' = FALSE
  /\ UNCHANGED <<cartVars, farmerVars, authVars, socketVars, inv, ended, srvPayments, srvOrders>>

\* Back navigation from the checkout screen; calls in flight keep running.
leaveCheckout ==
  /\ route = "checkout"
  /\ route' = "cart"
  /\ address' = <<>>
  /\ checkoutLoading' = FALSE
  /\ inv' = Unmounted
  /\ UNCHANGED <<cartVars, farmerVars, authVars, socketVars, ended, srvPayments, srvOrders>>

\* --------------------------------------------------- farmer orders
\* PUT /orders/{id}/status {status}: the service moves an order one step
\* forward and rejects every other target.
SrvStatusValid(st, o, target) == target = NextStatus(st[o])
SrvSetStatus(st, o, target) == [st EXCEPT ![o] = target]

\* Requests in flight take the lowest free record; a record is free again
\* once its handler has run to the end.
FreeReq(r) == reqs[r].pc = "idle" /\ \A j \in ReqIds : j < r => reqs[j].pc # "idle"

\* fetchOrders up to its await: orderAPI.getAll() goes out and is answered
\* with the orders of that moment, or fails. Called by the mount effect and
\* by onRefresh.
fetchOrders(r, outcome) ==
  /\ FreeReq(r)
  /\ reqs' = [reqs EXCEPT ![r] =
                [IdleReq EXCEPT !.pc = "getResp", !.ok = (outcome = "ok"),
                                !.data = IF outcome = "ok" THEN OrdersResponse(srvStatus)
                                         ELSE <<>>]]
  /\ UNCHANGED <<cartVars, checkoutVars, socketVars, authVars, orders, farmerUpdatingId, farmerAlert, srvStatus>>

\* fetchOrders, try branch after the await: setOrders(data).
fetchOrdersOk(r) ==
  /\ reqs[r].pc = "getResp" /\ reqs[r].ok
  /\ orders' = reqs[r].data
  /\ reqs' = [reqs EXCEPT ![r] = IdleReq]
  /\ UNCHANGED <<cartVars, checkoutVars, socketVars, authVars, farmerUpdatingId, farmerAlert, srvStatus>>

\* fetchOrders, catch branch: console.error only.
fetchOrdersCatch(r) ==
  /\ reqs[r].pc = "getResp" /\ ~reqs[r].ok
  /\ reqs' = [reqs EXCEPT ![r] = IdleReq]
  /\ UNCHANGED <<cartVars, checkoutVars, socketVars, authVars, orders, farmerUpdatingId, farmerAlert, srvStatus>>

\* The status the button of renderActionButtons passes to
\* handleUpdateStatus; "none" where the switch renders no button.
ActionForRepeated(status) ==
  CASE status = "pending" -> "confirmed"
    [] status = "confirmed" -> "shipped"
    [] status = "shipped" -> "delivered"
    [] status = "delivered" -> "delivered"
    [] OTHER -> "none"
ActionFor(status) ==
  CASE status = "pending" -> "confirmed"
    [] status = "confirmed" -> "shipped"
    [] status = "shipped" -> "delivered"
    [] status = "delivered" -> "none"
    [] OTHER -> "none"

\* renderActionButtons(order): a spinner stands in for the button while
\* updatingId is the id of the order.
Offered(order) ==
  IF farmerUpdatingId = order.id THEN "none" ELSE ActionFor(order.status)

IsCached(o) == \E k \in 1..Len(orders) : orders[k].id = o
Cached(o) == orders[CHOOSE k \in 1..Len(orders) : orders[k].id = o]

\* handleUpdateStatus(orderId, newStatus) up to its await, from the button
\* of a rendered order; an open alert is modal.
handleUpdateStatus(r, o, outcome) ==
  /\ FreeReq(r)
  /\ farmerAlert = "none"
  /\ IsCached(o)
  /\ Offered(Cached(o)) # "none"
  /\ LET newStatus == Offered(Cached(o))
     IN  /\ outcome = "failed" \/ SrvStatusValid(srvStatus, o, newStatus)
         /\ reqs' = [reqs EXCEPT ![r] =
                       [IdleReq EXCEPT !.pc = "putResp", !.order = o, !.target = newStatus,
                                       !.ok = (outcome = "ok")]]
         /\ srvStatus' = IF outcome = "failed" THEN srvStatus
                         ELSE SrvSetStatus(srvStatus, o, newStatus)
  /\ farmerUpdatingId' = o
  /\ UNCHANGED <<cartVars, checkoutVars, socketVars, authVars, orders, farmerAlert>>

\* prevOrders.map(order => order.id === orderId ? {...order, status: newStatus} : order)
SetStatus(prev, orderId, newStatus) ==
  [k \in 1..Len(prev) |->
     IF prev[k].id = orderId THEN [prev[k] EXCEPT !.status = newStatus] ELSE prev[k]]

\* handleUpdateStatus after `await orderAPI.updateStatus()` resolved:
\* setOrders, the 'Success' alert, then finally.
updateStatusOk(r) ==
  /\ reqs[r].pc = "putResp" /\ reqs[r].ok
  /\ orders' = SetStatus(orders, reqs[r].order, reqs[r].target)
  /\ farmerAlert' = "Success"
  /\ farmerUpdatingId' = 0
  /\ reqs' = [reqs EXCEPT ![r] = IdleReq]
  /\ UNCHANGED <<cartVars, checkoutVars, socketVars, authVars, srvStatus>>

\* What the catch branch of handleUpdateStatus leaves in the cache.
UpdateCatchOrdersWritten(prev, req) == SetStatus(prev, req.order, req.target)
UpdateCatchOrders(prev, req) == prev

\* handleUpdateStatus, catch branch: the 'Error' alert, then finally.
updateStatusCatch(r) ==
  /\ reqs[r].pc = "putResp" /\ ~reqs[r].ok
  /\ orders' = UpdateCatchOrders(orders, reqs[r])
  /\ farmerAlert' = "Error"
  /\ farmerUpdatingId' = 0
  /\ reqs' = [reqs EXCEPT ![r] = IdleReq]
  /\ UNCHANGED <<cartVars, checkoutVars, socketVars, authVars, srvStatus>>

\* The button of the open alert.
dismissAlert ==
  /\ farmerAlert # "none"
  /\ farmerAlert' = "none"
  /\ UNCHANGED <<cartVars, checkoutVars, socketVars, authVars, orders, farmerUpdatingId, reqs, srvStatus>>

\* ------------------------------------------------------ notifications
\* this.socket?.connected
Connected == socket # 0 /\ conns[socket] = "connected"

\* io(SOCKET_URL, ...) gives a socket of its own on every call.
Unused(s) == conns[s] = "none" /\ \A t \in SocketIds : t < s => conns[t] # "none"

\* connect(userId): returns at once when this.socket is connected; else
\* this.socket becomes a new socket with its three handlers. The socket
\* this.socket held before is not closed.
connect(s, userId) ==
  /\ ~Connected
  /\ Unused(s)
  /\ socket' = s
  /\ conns' = [conns EXCEPT ![s] = "connecting"]
  /\ room' = [room EXCEPT ![s] = userId]
  /\ UNCHANGED <<cartVars, checkoutVars, farmerVars, authVars, listeners, event, removed, rootUser, attempts>>

\* 'connect' of a socket: it emits join_user_room with the userId its
\* connect() call was given.
socketConnect(s) ==
  /\ conns[s] \in {"connecting", "reconnecting"}
  /\ conns' = [conns EXCEPT ![s] = "connected"]
  /\ attempts' = [attempts EXCEPT ![s] = 0]
  /\ UNCHANGED <<cartVars, checkoutVars, farmerVars, authVars, socket, listeners, event, removed, room, rootUser>>

\* The io options of connect(): `reconnection: true` and nothing about
\* reconnectionAttempts, so the manager goes on after every failed attempt.
GivesUp(n) == FALSE

\* A reconnection attempt of a socket failed; the manager schedules the
\* next one.
reconnectError(s) ==
  /\ conns[s] = "reconnecting"
  /\ ~GivesUp(attempts[s])
  /\ attempts[s] < MaxAttempts
  /\ attempts' = [attempts EXCEPT ![s] = @ + 1]
  /\ UNCHANGED <<cartVars, checkoutVars, farmerVars, authVars, socket, listeners, conns, event, removed, room, rootUser>>

\* 'disconnect' of a socket the network dropped; with `reconnection: true`
\* it connects again by itself.
socketDisconnect(s) ==
  /\ conns[s] = "connected"
  /\ conns' = [conns EXCEPT ![s] = "reconnecting"]
  /\ UNCHANGED <<cartVars, checkoutVars, farmerVars, authVars, socket, listeners, event, removed, room, rootUser, attempts>>

\* disconnect(): closes this.socket and forgets it.
disconnect ==
  /\ socket # 0
  /\ conns' = [conns EXCEPT ![socket] = "closed"]
  /\ socket' = 0
  /\ UNCHANGED <<cartVars, checkoutVars, farmerVars, authVars, listeners, event, removed, room, rootUser, attempts>>

\* onNotification(callback): this.listeners.push(callback)
onNotification(cb) ==
  /\ Len(listeners) < MaxListeners
  /\ listeners' = Append(listeners, cb)
  /\ removed' = IF removed.callback = cb THEN NoneRemoved ELSE removed
  /\ UNCHANGED <<cartVars, checkoutVars, farmerVars, authVars, socket, conns, event, room, rootUser, attempts>>

\* How often a callback stands in this.listeners.
Copies(ls, cb) == Cardinality({n \in 1..Len(ls) : ls[n] = cb})

\* this.listeners.filter(l => l !== callback)
RECURSIVE WithoutFirst(_, _)
WithoutFirst(ls, cb) ==
  IF ls = <<>> THEN <<>>
  ELSE IF Head(ls) = cb THEN Tail(ls) ELSE <<Head(ls)>> \o WithoutFirst(Tail(ls), cb)
RECURSIVE Without(_, _)
Without(ls, cb) ==
  IF ls = <<>> THEN <<>>
  ELSE (IF Head(ls) # cb THEN <<Head(ls)>> ELSE <<>>) \o Without(Tail(ls), cb)

\* offNotification(callback)
offNotification(cb) ==
  /\ Copies(listeners, cb) > 0
  /\ listeners' = Without(listeners, cb)
  /\ removed' = [NoneRemoved EXCEPT !.callback = cb, !.copies = Copies(listeners, cb)]
  /\ UNCHANGED <<cartVars, checkoutVars, farmerVars, authVars, socket, conns, event, room, rootUser, attempts>>

\* notifyListeners(data): this.listeners.forEach(listener => listener(data)),
\* counted per callback.
RECURSIVE notifyListeners(_, _)
notifyListeners(invoked, ls) ==
  IF ls = <<>> THEN invoked
  ELSE notifyListeners([invoked EXCEPT ![Head(ls)] = @ + 1], Tail(ls))

\* The sockets that are in the room of a user.
Joined(u) == {s \in SocketIds : conns[s] = "connected" /\ room[s] = u}

\* The 'notification' handler of every socket in S runs.
RECURSIVE Deliver(_, _)
Deliver(invoked, S) ==
  IF S = {} THEN invoked
  ELSE LET s == CHOOSE t \in S : TRUE
       IN  Deliver(notifyListeners(invoked, listeners), S \ {s})

\* The service emits one notification to the room of a user; the handler
\* registered in connect() runs on each socket of the room.
notification(u) ==
  /\ Joined(u) # {}
  /\ event' = [sent |-> TRUE,
               registered |-> {listeners[n] : n \in 1..Len(listeners)},
               invoked |-> Deliver(NoEvent.invoked, Joined(u))]
  /\ removed' = IF removed.callback = 0 THEN removed
                ELSE [removed EXCEPT !.events = 1,
                                     !.received = event'.invoked[removed.callback]]
  /\ UNCHANGED <<cartVars, checkoutVars, farmerVars, authVars, socket, listeners, conns, room, rootUser, attempts>>

\* ----------------------------------------------------------- root layout
\* handleNotification of RootLayout. Each run of the effect makes a closure
\* of its own and the cleanup takes the one of the run before out again, so
\* one callback stands for them.
Handler == CHOOSE cb \in Callbacks : \A d \in Callbacks : cb <= d

\* this.listeners after the cleanup of the last run of the effect.
CleanedUp == IF rootUser # 0 THEN Without(listeners, Handler) ELSE listeners

\* The effect of RootLayout, run because `user` of useAuthStore changed to
\* u (0 for null; a user object of the same id counts as changed): the
\* cleanup of the run before, then connect(user.id) and onNotification, or
\* disconnect().
layoutEffect(s, u) ==
  /\ u # 0 \/ rootUser # 0
  /\ rootUser' = u
  /\ IF u # 0
       THEN /\ Connected \/ Unused(s)
            /\ socket' = IF Connected THEN socket ELSE s
            /\ conns' = IF Connected THEN conns ELSE [conns EXCEPT ![s] = "connecting"]
            /\ room' = IF Connected THEN room ELSE [room EXCEPT ![s] = u]
            /\ listeners' = Append(CleanedUp, Handler)
            /\ removed' = IF removed.callback = Handler \/ rootUser # 0
                          THEN NoneRemoved ELSE removed
       ELSE /\ Unused(s) \/ \A t \in SocketIds : ~Unused(t)
            /\ socket' = 0
            /\ conns' = IF socket # 0 THEN [conns EXCEPT ![socket] = "closed"] ELSE conns
            /\ room' = room
            /\ listeners' = CleanedUp
            /\ removed' = [NoneRemoved EXCEPT !.callback = Handler,
                                              !.copies = Copies(listeners, Handler)]
  /\ UNCHANGED <<cartVars, checkoutVars, farmerVars, authVars, event, attempts>>

\* ------------------------------------------------------------ auth store
\* Calls take the lowest free record; a record is free again once its call
\* has returned. As with the cart, the service handles a request in the
\* step in which it is sent; AsyncStorage writes when it is called and the
\* caller resumes later.
FreeAuth(a) ==
  authCalls[a].pc = "idle" /\ \A b \in AuthIds : b < a => authCalls[b].pc # "idle"

Resume(a, rec) == authCalls' = [authCalls EXCEPT ![a] = rec]
Return(a) == Resume(a, IdleAuth)

\* AsyncStorage serves its operations in the order they were issued, so
\* the calls awaiting it resume in that order.
Awaits(a) == awaiting' = Append(awaiting, a)
IsNext(a) == awaiting # <<>> /\ Head(awaiting) = a
Resumed == awaiting' = Tail(awaiting)
AwaitsAgain(a) == awaiting' = Append(Tail(awaiting), a)

\* set({user, token, isAuthenticated})
Set(u, t, authenticated) ==
  /\ user' = u
  /\ token' = t
  /\ isAuthenticated' = authenticated

\* POST /auth/login and POST /auth/signup: answered 2xx with the user and a
\* token for it, or failed.
Authenticate(a, op, u, outcome) ==
  /\ FreeAuth(a)
  /\ Resume(a, [IdleAuth EXCEPT !.op = op, !.pc = "resp", !.user = u, !.token = u,
                                !.ok = (outcome = "ok")])
  /\ srvTokens' = IF outcome = "ok" THEN srvTokens \cup {u} ELSE srvTokens
  /\ awaiting' = awaiting
  /\ UNCHANGED <<cartVars, checkoutVars, farmerVars, socketVars, user, token,
                 isAuthenticated, storage>>

\* login(email, password) up to `await authAPI.login()`
login(a, u, outcome) == Authenticate(a, "login", u, outcome)

\* signup(data) up to `await authAPI.signup()`
signup(a, u, outcome) == Authenticate(a, "signup", u, outcome)

\* authAPI.login after a 2xx answer: AsyncStorage.setItem('token', ...)
\* before it returns the data.
loginStored(a) ==
  /\ authCalls[a].pc = "resp" /\ authCalls[a].op = "login" /\ authCalls[a].ok
  /\ storage' = authCalls[a].token
  /\ Resume(a, [authCalls[a] EXCEPT !.pc = "returned"])
  /\ Awaits(a)
  /\ UNCHANGED <<cartVars, checkoutVars, farmerVars, socketVars, user, token,
                 isAuthenticated, srvTokens>>

\* login / signup after the await of the API call:
\* `await AsyncStorage.setItem('token', response.access_token)`.
authStored(a) ==
  /\ \/ authCalls[a].pc = "returned" /\ IsNext(a) /\ AwaitsAgain(a)
     \/ authCalls[a].pc = "resp" /\ authCalls[a].op = "signup" /\ authCalls[a].ok /\ Awaits(a)
  /\ storage' = authCalls[a].token
  /\ Resume(a, [authCalls[a] EXCEPT !.pc = "stored"])
  /\ UNCHANGED <<cartVars, checkoutVars, farmerVars, socketVars, user, token,
                 isAuthenticated, srvTokens>>

\* login / signup: set({user: response.user, token, isAuthenticated: true})
authSet(a) ==
  /\ IsNext(a)
  /\ authCalls[a].pc = "stored"
  /\ Set(authCalls[a].user, authCalls[a].token, TRUE)
  /\ Return(a)
  /\ Resumed
  /\ UNCHANGED <<cartVars, checkoutVars, farmerVars, socketVars, storage, srvTokens>>

\* login / signup, catch branch: console.error, `throw error`.
authCatch(a) ==
  /\ authCalls[a].pc = "resp" /\ authCalls[a].op \in {"login", "signup"} /\ ~authCalls[a].ok
  /\ Return(a)
  /\ awaiting' = awaiting
  /\ UNCHANGED <<cartVars, checkoutVars, farmerVars, socketVars, user, token,
                 isAuthenticated, storage, srvTokens>>

\* logout() up to `await AsyncStorage.removeItem('token')`
logout(a) ==
  /\ FreeAuth(a)
  /\ storage' = 0
  /\ Resume(a, [IdleAuth EXCEPT !.op = "logout", !.pc = "removed"])
  /\ Awaits(a)
  /\ UNCHANGED <<cartVars, checkoutVars, farmerVars, socketVars, user, token,
                 isAuthenticated, srvTokens>>

\* logout(): set({user: null, token: null, isAuthenticated: false})
logoutSet(a) ==
  /\ IsNext(a)
  /\ authCalls[a].pc = "removed" /\ authCalls[a].op = "logout"
  /\ Set(0, 0, FALSE)
  /\ Return(a)
  /\ Resumed
  /\ UNCHANGED <<cartVars, checkoutVars, farmerVars, socketVars, storage, srvTokens>>

\* loadUser() up to `await AsyncStorage.getItem('token')`
loadUser(a) ==
  /\ FreeAuth(a)
  /\ Resume(a, [IdleAuth EXCEPT !.op = "loadUser", !.pc = "gotItem", !.token = storage])
  /\ Awaits(a)
  /\ UNCHANGED <<cartVars, checkoutVars, farmerVars, socketVars, user, token,
                 isAuthenticated, storage, srvTokens>>

\* The outcomes of a request that carries the stored token: answered 2xx;
\* refused because the token is missing or no longer accepted; failed for
\* another reason.
AuthOutcomes == {"ok", "denied", "failed"}

\* getAuthHeader() reads the stored token when the request is made; the
\* service accepts the tokens it issued and has not expired.
Accepted(t) == t # 0 /\ t \in srvTokens
Possible(outcome) ==
  CASE outcome = "ok" -> Accepted(storage)
    [] outcome = "denied" -> ~Accepted(storage)
    [] OTHER -> TRUE

\* loadUser after getItem: nothing without a token, else
\* `await authAPI.getMe()`, answered with the user of the token sent.
loadUserGetMe(a, outcome) ==
  /\ IsNext(a)
  /\ authCalls[a].pc = "gotItem"
  /\ IF authCalls[a].token = 0
       THEN outcome = "failed" /\ Return(a)
       ELSE /\ Possible(outcome)
            /\ Resume(a, [authCalls[a] EXCEPT !.pc = "meResp", !.sent = storage,
                                             !.ok = (outcome = "ok"),
                                             !.denied = (outcome = "denied"),
                                             !.user = IF outcome = "ok" THEN storage ELSE 0])
  /\ Resumed
  /\ UNCHANGED <<cartVars, checkoutVars, farmerVars, socketVars, user, token,
                 isAuthenticated, storage, srvTokens>>

\* loadUser: set({user, token, isAuthenticated: true})
loadUserSet(a) ==
  /\ authCalls[a].pc = "meResp" /\ authCalls[a].ok
  /\ Set(authCalls[a].user, authCalls[a].token, TRUE)
  /\ Return(a)
  /\ awaiting' = awaiting
  /\ UNCHANGED <<cartVars, checkoutVars, farmerVars, socketVars, storage, srvTokens>>

\* loadUser, catch branch up to `await AsyncStorage.removeItem('token')`
loadUserCatch(a) ==
  /\ authCalls[a].pc = "meResp" /\ ~authCalls[a].ok
  /\ storage' = 0
  /\ Resume(a, [authCalls[a] EXCEPT !.pc = "removed"])
  /\ Awaits(a)
  /\ UNCHANGED <<cartVars, checkoutVars, farmerVars, socketVars, user, token,
                 isAuthenticated, srvTokens>>

\* loadUser, catch branch: set({user: null, token: null, isAuthenticated: false})
loadUserCleared(a) ==
  /\ IsNext(a)
  /\ authCalls[a].pc = "removed" /\ authCalls[a].op = "loadUser"
  /\ Set(0, 0, FALSE)
  /\ Return(a)
  /\ Resumed
  /\ UNCHANGED <<cartVars, checkoutVars, farmerVars, socketVars, storage, srvTokens>>

\* A cartAPI, orderAPI or paymentAPI call up to its fetch: getAuthHeader(),
\* then the request.
apiCall(a, outcome) ==
  /\ FreeAuth(a)
  /\ Possible(outcome)
  /\ Resume(a, [IdleAuth EXCEPT !.op = "api", !.pc = "resp", !.sent = storage,
                                !.ok = (outcome = "ok"), !.denied = (outcome = "denied")])
  /\ awaiting' = awaiting
  /\ UNCHANGED <<cartVars, checkoutVars, farmerVars, socketVars, user, token,
                 isAuthenticated, storage, srvTokens>>

\* The call returns its data or throws `new Error('Failed to ...')`; its
\* callers log the error or show it in an alert.
apiCallSettled(a) ==
  /\ authCalls[a].pc = "resp" /\ authCalls[a].op = "api"
  /\ Return(a)
  /\ awaiting' = awaiting
  /\ UNCHANGED <<cartVars, checkoutVars, farmerVars, socketVars, user, token,
                 isAuthenticated, storage, srvTokens>>

\* The service stops accepting a token.
expire(t) ==
  /\ t \in srvTokens
  /\ srvTokens' = srvTokens \ {t}
  /\ awaiting' = awaiting
  /\ UNCHANGED <<cartVars, checkoutVars, farmerVars, socketVars, user, token,
                 isAuthenticated, storage, authCalls>>

\* --------------------------------------------------------- specification
\* Store calls are numbered in the order in which they are made.
Lowest(c) == \A d \in CallIds : d < c => ~Free(d)

\* The quantity buttons of a line pass item.quantity - 1 and item.quantity + 1.
Buttons == {0 - 1, 1}

\* The continuations of the store operations.
StoreSteps ==
  \/ \E c \in CallIds : fetchCartOk(c)
  \/ \E c \in CallIds : fetchCartCatch(c)
  \/ \E c \in CallIds, o \in Outcomes : mutationThenFetch(c, o)
  \/ \E c \in CallIds : mutationCatch(c)

\* The store driven through its five operations.
Next ==
  \/ \E c \in CallIds, o \in Outcomes : Lowest(c) /\ o # "lost" /\ fetchCart(c, o)
  \/ \E c \in CallIds, p \in Products, q \in 1..MaxQty, o \in Outcomes :
       Lowest(c) /\ addToCart(c, p, q, o)
  \/ \E c \in CallIds, i \in Products, q \in 1..MaxQty, o \in Outcomes :
       Lowest(c) /\ updateQuantity(c, i, q, o)
  \/ \E c \in CallIds, i \in Products, o \in Outcomes : Lowest(c) /\ removeFromCart(c, i, o)
  \/ \E c \in CallIds, o \in Outcomes : Lowest(c) /\ clearCart(c, o)
  \/ \E c \in CallIds : clearCartOk(c)
  \/ StoreSteps

Spec == Init /\ [][Next]_vars

\* The store driven by the cart screen, with the product screen filling the
\* cart of the service.
ScreenNext ==
  \/ \E p \in Products : handleAddToCart(p)
  \/ \E c \in CallIds, o \in Outcomes : Lowest(c) /\ o # "lost" /\ fetchCart(c, o)
  \/ \E c \in CallIds, i \in Products, d \in Buttons, o \in Outcomes :
       /\ Rendered(i)
       /\ RedirectsToRemove(Quantity(i) + d) \/ Lowest(c)
       /\ handleUpdateQuantity(c, i, Quantity(i) + d, o)
  \/ \E i \in Products : handleRemoveItem(i)
  \/ alertCancel
  \/ \E c \in CallIds, o \in Outcomes : Lowest(c) /\ alertRemove(c, o)
  \/ StoreSteps

ScreenSpec == Init /\ [][ScreenNext]_vars

\* The carts the checkout is entered with: each product is absent, or in
\* the cart MaxQty times with its product resolvable or not. The handler
\* reads a quantity only to copy it into the order.
CheckoutCarts ==
  {cg \in [Products -> {0, MaxQty}] \X SUBSET Products :
     \A p \in cg[2] : cg[1][p] > 0}

\* The checkout screen, entered with a cart the cart screen has fetched.
CheckoutInit ==
  /\ \E cg \in CheckoutCarts :
       /\ srvCart = cg[1]
       /\ srvGone = cg[2]
       /\ items = CartResponse(cg[1], cg[2]).items
       /\ total = CartResponse(cg[1], cg[2]).total
  /\ calls = [c \in CallIds |-> IdleCall]
  /\ settled = NoneSettled
  /\ updatingId = 0
  /\ alert = NoAlert
  /\ CheckoutIdle
  /\ FarmerIdle
  /\ SocketIdle
  /\ AuthIdle
  /\ route = "cart"

CheckoutNext ==
  \/ enterCheckout
  \/ leaveCheckout
  \/ \E a \in Addresses : setAddress(a)
  \/ \E k \in InvIds, o \in PayOutcomes : handlePayment(k, o)
  \/ \E k \in InvIds, o \in OrderOutcomes : paymentResolved(k, o)
  \/ \E k \in InvIds, cause \in Causes : paymentThrew(k, cause)
  \/ \E k \in InvIds : orderResolved(k)
  \/ \E k \in InvIds, cause \in Causes : orderThrew(k, cause)

CheckoutSpec == CheckoutInit /\ [][CheckoutNext]_vars

\* The farmer orders screen over orders in any status.
FarmerInit ==
  /\ CartInit
  /\ CheckoutIdle
  /\ route = "farmer"
  /\ orders = <<>>
  /\ farmerUpdatingId = 0
  /\ farmerAlert = "none"
  /\ reqs = [r \in ReqIds |-> IdleReq]
  /\ srvStatus \in [OrderIds -> Statuses]
  /\ SocketIdle
  /\ AuthIdle

FarmerNext ==
  \/ \E r \in ReqIds, o \in {"ok", "failed"} : fetchOrders(r, o)
  \/ \E r \in ReqIds : fetchOrdersOk(r)
  \/ \E r \in ReqIds : fetchOrdersCatch(r)
  \/ \E r \in ReqIds, o \in OrderIds, out \in Outcomes : handleUpdateStatus(r, o, out)
  \/ \E r \in ReqIds : updateStatusOk(r)
  \/ \E r \in ReqIds : updateStatusCatch(r)
  \/ dismissAlert

FarmerSpec == FarmerInit /\ [][FarmerNext]_vars

\* The farmer orders screen with a list of several orders.
FarmerListInit ==
  /\ CartInit
  /\ CheckoutIdle
  /\ route = "farmer"
  /\ orders = <<>>
  /\ farmerUpdatingId = 0
  /\ farmerAlert = "none"
  /\ reqs = [r \in ReqIds |-> IdleReq]
  /\ srvStatus \in [ListedIds -> Statuses]
  /\ SocketIdle
  /\ AuthIdle

FarmerListNext ==
  \/ \E r \in ReqIds, o \in {"ok", "failed"} : fetchOrders(r, o)
  \/ \E r \in ReqIds : fetchOrdersOk(r)
  \/ \E r \in ReqIds : fetchOrdersCatch(r)
  \/ \E r \in ReqIds, o \in ListedIds, out \in Outcomes : handleUpdateStatus(r, o, out)
  \/ \E r \in ReqIds : updateStatusOk(r)
  \/ \E r \in ReqIds : updateStatusCatch(r)
  \/ dismissAlert

FarmerListSpec == FarmerListInit /\ [][FarmerListNext]_vars

\* The user of the session SocketSpec runs in.
FirstUser == CHOOSE u \in Users : \A v \in Users : u <= v

\* The notification service driven through its four operations within one
\* session, with the sockets and the remote service as its environment.
SocketNext ==
  \/ \E s \in SocketIds : connect(s, FirstUser)
  \/ \E s \in SocketIds : socketConnect(s)
  \/ \E s \in SocketIds : socketDisconnect(s)
  \/ disconnect
  \/ \E cb \in Callbacks : onNotification(cb)
  \/ \E cb \in Callbacks : offNotification(cb)
  \/ \E u \in Users : notification(u)

SocketSpec == Init /\ [][SocketNext]_vars

\* The notification service driven by RootLayout as the session user
\* changes, with the sockets and the remote service as its environment.
ChannelNext ==
  \/ \E s \in SocketIds, u \in Users \cup {0} : layoutEffect(s, u)
  \/ \E s \in SocketIds : socketConnect(s)
  \/ \E s \in SocketIds : socketDisconnect(s)
  \/ \E s \in SocketIds : reconnectError(s)
  \/ \E u \in Users : notification(u)

ChannelSpec == Init /\ [][ChannelNext]_vars

\* The auth store driven through its four operations, next to calls that
\* carry the stored token, with the remote service as its environment.
AuthNext ==
  \/ \E a \in AuthIds, u \in Users, o \in {"ok", "failed"} : login(a, u, o)
  \/ \E a \in AuthIds, u \in Users, o \in {"ok", "failed"} : signup(a, u, o)
  \/ \E a \in AuthIds : loginStored(a)
  \/ \E a \in AuthIds : authStored(a)
  \/ \E a \in AuthIds : authSet(a)
  \/ \E a \in AuthIds : authCatch(a)
  \/ \E a \in AuthIds : logout(a)
  \/ \E a \in AuthIds : logoutSet(a)
  \/ \E a \in AuthIds : loadUser(a)
  \/ \E a \in AuthIds, o \in AuthOutcomes : loadUserGetMe(a, o)
  \/ \E a \in AuthIds : loadUserSet(a)
  \/ \E a \in AuthIds : loadUserCatch(a)
  \/ \E a \in AuthIds : loadUserCleared(a)
  \/ \E a \in AuthIds, o \in AuthOutcomes : apiCall(a, o)
  \/ \E a \in AuthIds : apiCallSettled(a)
  \/ \E t \in Users : expire(t)

AuthSpec == Init /\ [][AuthNext]_vars

\* ------------------------------------------------------------ properties
\* C1: in every reachable state of the cart store the cached total equals
\* the sum over the cached items of quantity * product price.
TotalMatchesItems == total = SumSubtotals(items)

\* C1 witness: a quantity update has gone through and the cache holds a
\* line of quantity 2 with its total.
TotalMatchesItemsWitness ==
  /\ settled.op = "mutation" /\ settled.result = "ok" /\ ~settled.fetchFailed
  /\ Len(items) > 0 /\ items[1].quantity = 2 /\ total = 2 * Price(1)

\* C2: the step in which fetchCart handles a failed GET /cart leaves the
\* cached items and the cached total exactly as they were.
FailedFetchKeepsCache ==
  [][\A c \in CallIds :
       (calls[c].pc = "getResp" /\ ~calls[c].ok /\ calls'[c] # calls[c])
         => (items' = items /\ total' = total)]_vars

\* C2 witness: a fetch has failed while the cache was not empty.
FailedFetchKeepsCacheWitness ==
  settled.fetchFailed /\ Len(items) > 0 /\ total > 0

\* C3: a call whose GET /cart failed does not settle as a success.
FailedFetchSurfaces == settled.fetchFailed => settled.result = "error"

FailedMutationKeepsCache ==
  [][\A c \in CallIds :
       (calls[c].pc = "mutResp" /\ ~calls[c].ok /\ calls'[c] # calls[c])
         => (/\ calls'[c].pc = "done" /\ settled'.result = "error"
             /\ items' = items /\ total' = total)]_vars

\* C5 witness: clearCart has failed on a cart that holds a line.
FailedMutationKeepsCacheWitness ==
  /\ settled.op = "clear" /\ settled.result = "error"
  /\ Len(items) > 0 /\ total > 0

ClearResetsCache ==
  [][\A c \in CallIds :
       (calls[c].pc = "mutResp" /\ calls[c].ok /\ calls[c].op = "clear" /\ calls'[c] # calls[c])
         => (/\ items' = <<>> /\ total' = 0
             /\ calls'[c].pc = "done" /\ settled'.result = "ok"
             /\ ~settled'.fetchStarted)]_vars

\* C7 witness: clearCart has returned and the cache is empty.
ClearResetsCacheWitness ==
  /\ settled.op = "clear" /\ settled.result = "ok"
  /\ items = <<>> /\ total = 0

Issued(i) == i.payReqs + i.orderReqs > 0

\* C8: an invocation of handlePayment that has issued a remote call was
\* invoked with an address that is non-empty after trimming and a non-empty
\* cart whose items all carry a product, and the order body it builds has
\* one line per cart item; an invocation stopped by a precondition has
\* issued nothing.
CheckoutPreconditions ==
  /\ \A k \in InvIds :
       /\ Issued(inv[k]) =>
            /\ Trim(inv[k].address) # <<>>
            /\ Len(inv[k].items) > 0
            /\ \A n \in 1..Len(inv[k].items) : HasProduct(inv[k].items[n])
       /\ inv[k].orderReqs > 0 => Len(inv[k].body.items) = Len(inv[k].items)
  /\ Issued(ended) =>
       /\ Len(ended.items) > 0
       /\ \A n \in 1..Len(ended.items) : HasProduct(ended.items[n])
  /\ ended.outcome \in {"noAddress", "emptyCart", "invalidItem"} => ~Issued(ended)

\* C8 witness: a checkout with an address was blocked by a cart item
\* without product and issued nothing.
CheckoutPreconditionsWitness ==
  /\ ended.outcome = "invalidItem" /\ ~Issued(ended)
  /\ route = "checkout" /\ Trim(address) # <<>> /\ srvPayments = 0

\* C9: an invocation whose payment returned success = false issues no
\* order request, ends on the failure screen, and leaves the cached cart
\* and the cart the service reports as they were when it was invoked.
DeclinedPaymentStops ==
  /\ \A k \in InvIds :
       inv[k].payment = "declined" =>
         /\ inv[k].orderReqs = 0 /\ inv[k].pc = "payResp"
         /\ items = inv[k].items
         /\ CartResponse(srvCart, srvGone).items = inv[k].items
  /\ ended.payment = "declined" =>
       /\ ended.orderReqs = 0
       /\ ended.transitions = <<"/payment/failure">>
       /\ items = ended.items
       /\ CartResponse(srvCart, srvGone).items = ended.items

\* C9 witness: a declined checkout has ended on the failure screen with its
\* cart still holding a line and no order recorded.
DeclinedPaymentStopsWitness ==
  /\ ended.payment = "declined" /\ ended.outcome = "failure"
  /\ route = "/payment/failure" /\ Len(items) > 0 /\ srvOrders = <<>>

CartClearedIffOrderCreated ==
  /\ ended.order = "created" => (items = <<>> /\ total = 0)
  /\ (ended.payReqs > 0 /\ ended.order # "created") => items = ended.items

\* C12: an invocation that passed its preconditions ends either (a) with
\* the payment failed, the cart as it was and no order created, or (b)
\* with the payment succeeded, the cart emptied and its order created.
TwoOutcomesOnly ==
  ended.payReqs > 0 =>
    \/ /\ ended.payment # "success"
       /\ ended.orderReqs = 0
       /\ items = ended.items
    \/ /\ ended.payment = "success"
       /\ ended.order = "created"
       /\ items = <<>>

\* What the user is shown at the end of an invocation: the terminal routes
\* and the text of the error alert.
Shown(e) == [transitions |-> e.transitions, message |-> e.message]

\* What is shown after a payment that returned success = false.
DeclinedShown == {[transitions |-> <<"/payment/failure">>, message |-> "none"]}

\* What can be shown after a payment call that threw with nothing charged.
PaymentThrewShown ==
  {[transitions |-> CatchTransitions, message |-> CatchMessage(PaymentError(o))] :
     o \in {p \in PayOutcomes : PaymentResult(p) = "threw" /\ ~Captured(p)}}

\* C13: an invocation whose order creation failed after its payment
\* succeeded ends showing something that neither a declined payment nor a
\* payment call that threw before a charge can end with.
OrderFailureDistinct ==
  (ended.payment = "success" /\ ended.order = "threw") =>
    Shown(ended) \notin (DeclinedShown \cup PaymentThrewShown)

\* The invocations made so far.
Invoked == {k \in InvIds : inv[k].pc # "idle"}

\* C14: no invocation sends the payment request or the order request more
\* than once, so the service holds at most one captured payment and at
\* most one order per invocation made, and no order without a payment.
NoRetry ==
  /\ \A k \in InvIds : inv[k].payReqs <= 1 /\ inv[k].orderReqs <= 1
  /\ ended.payReqs <= 1 /\ ended.orderReqs <= 1
  /\ srvPayments <= Cardinality(Invoked)
  /\ Len(srvOrders) <= srvPayments

\* C14 witness: an invocation ended after its order request was refused:
\* one payment request, one order request, one capture, no order.
NoRetryWitness ==
  /\ ended.order = "threw" /\ ended.message = "Failed to create order"
  /\ ended.payReqs = 1 /\ ended.orderReqs = 1
  /\ srvPayments = 1 /\ srvOrders = <<>>

\* The invocations that await their payment or their order.
InFlight == {k \in InvIds : inv[k].pc \in {"payResp", "orderResp"}}

\* C15: at no time do two invocations of the checkout handler await a
\* payment or an order creation together.
OneCheckoutInFlight == Cardinality(InFlight) <= 1

\* The step in which handleUpdateStatus of request r resumes after an
\* acknowledged status update.
Acknowledged(r) == reqs[r].pc = "putResp" /\ reqs[r].ok /\ reqs'[r].pc = "idle"

\* C16: every change a status advance makes to a cached order moves the
\* status of that order exactly one step forward along
\* pending -> confirmed -> shipped -> delivered.
AdvanceMovesOneStep ==
  [][\A r \in ReqIds : Acknowledged(r) =>
       \A k \in 1..Len(orders) :
         orders'[k].status # orders[k].status =>
           orders'[k].status = NextStatus(orders[k].status)]_vars

\* The step in which handleUpdateStatus sends the status update of request r.
Requested(r) == reqs[r].pc = "idle" /\ reqs'[r].pc = "putResp"

\* C17: a status update is requested only with the status one step after
\* the cached status of its order, and for no order cached as delivered;
\* what an order offers is nothing or that one status.
ActionFollowsStatus ==
  [][/\ \A r \in ReqIds : Requested(r) =>
          /\ IsCached(reqs'[r].order)
          /\ Cached(reqs'[r].order).status # "delivered"
          /\ reqs'[r].target = NextStatus(Cached(reqs'[r].order).status)
     /\ \A k \in 1..Len(orders) :
          Offered(orders[k]) \in {"none", NextStatus(orders[k].status)}]_vars

\* C17 witness: the last advance was acknowledged and the order is cached
\* as delivered, with no spinner in place of its action.
ActionFollowsStatusWitness ==
  /\ farmerAlert = "Success"
  /\ farmerUpdatingId = 0
  /\ \E k \in 1..Len(orders) : orders[k].status = "delivered"

\* The step in which handleUpdateStatus of request r resumes in its catch.
Failed(r) == reqs[r].pc = "putResp" /\ ~reqs[r].ok /\ reqs'[r].pc = "idle"

\* C18: an advance writes the cache only when its request was acknowledged:
\* sending the request leaves the cached orders as they are, and a failed
\* or rejected request leaves every cached order as it is and opens the
\* 'Error' alert.
AdvanceWritesAfterAck ==
  [][\A r \in ReqIds :
       /\ Requested(r) => orders' = orders
       /\ Failed(r) => (orders' = orders /\ farmerAlert' = "Error")]_vars

\* C18 witness: a status update failed with orders in the cache.
AdvanceWritesAfterAckWitness ==
  /\ farmerAlert = "Error"
  /\ orders # <<>>
  /\ farmerUpdatingId = 0

\* C19: the cached status of an order never moves to an earlier position
\* of the chain.
CachedStatusNeverReverts ==
  [][\A k \in 1..Len(orders) :
       /\ k <= Len(orders')
       /\ Rank(orders'[k].status) >= Rank(orders[k].status)]_vars

\* C20: each listener registered when a notification comes in is invoked
\* exactly once with it, whatever calls of connect, disconnect,
\* onNotification and offNotification came before.
EachListenerOnce ==
  event.sent => \A cb \in event.registered : event.invoked[cb] = 1

\* C21: a callback taken out by offNotification is invoked with no
\* notification that comes in afterwards, however often it was registered,
\* and taking it out leaves every other callback registered as often as it
\* was.
RemovedListenerSilent ==
  /\ [](removed.received = 0)
  /\ [][\A cb \in Callbacks :
          (removed'.callback = cb /\ removed' # removed) =>
            /\ Copies(listeners', cb) = 0
            /\ \A d \in Callbacks \ {cb} : Copies(listeners', d) = Copies(listeners, d)]_vars

\* C21 witness: a callback registered twice was taken out, a notification
\* came in afterwards and reached the other callback only.
RemovedListenerSilentWitness ==
  /\ removed.copies = 2
  /\ removed.events = 1
  /\ removed.received = 0
  /\ event.sent
  /\ \E d \in Callbacks \ {removed.callback} : event.invoked[d] > 0

\* The sockets io() has created that no disconnect() has closed.
Live == {s \in SocketIds : conns[s] \in {"connecting", "connected", "reconnecting"}}

\* C22: at most one socket that has not been disconnected exists, after
\* every sequence of connect and disconnect calls.
OneLiveSocket == Cardinality(Live) <= 1

\* C23: while a session is active and this.socket is connected, the room
\* that socket joined is the one of the session user; with no session
\* this.socket is gone.
ChannelBoundToUser ==
  /\ (rootUser # 0 /\ Connected) => room[socket] = rootUser
  /\ rootUser = 0 => socket = 0

\* The number of attempts utils/socket.ts passes to io(); no caller of
\* initializeSocket exists.
reconnectionAttempts == 5

\* C24: after a connection loss a socket makes no more than a small fixed
\* number of reconnection attempts within one session.
ReconnectionBounded ==
  \A s \in SocketIds : attempts[s] <= reconnectionAttempts

\* The step in which the caller of a request that was refused for its
\* token resumes, and the step in which that call returns.
DeniedResumes(a) ==
  authCalls[a].denied /\ authCalls[a].pc \in {"resp", "meResp"} /\ authCalls'[a] # authCalls[a]
DeniedReturns(a) == authCalls[a].denied /\ authCalls'[a].pc = "idle"

\* C25: a call refused because the token is missing or expired removes the
\* token it sent from storage and returns with the session cleared, be it
\* the getMe of loadUser or a later cart, order or payment call.
AuthErrorClearsSession ==
  [][\A a \in AuthIds :
       /\ DeniedResumes(a) => (storage' = 0 \/ storage' # authCalls[a].sent)
       /\ DeniedReturns(a) => (user' = 0 /\ token' = 0 /\ ~isAuthenticated')]_vars

\* The step in which invocation k sends POST /orders.
SendsOrder(k) == inv[k].pc = "payResp" /\ inv'[k].pc = "orderResp"

\* C26: the order request of an invocation carries the address and the
\* cart the screen held when the handler was invoked: one line per cached
\* item, in order, made of the product id and the quantity and of nothing
\* else, so no cached price or total; the order the service records is that
\* list.
OrderBuiltFromCachedCart ==
  [][\A k \in InvIds :
       /\ (inv[k].pc = "idle" /\ inv'[k].pc = "payResp") =>
            (inv'[k].address = address /\ inv'[k].items = items)
       /\ SendsOrder(k) =>
            /\ inv'[k].body.shipping_address = inv[k].address
            /\ Len(inv'[k].body.items) = Len(inv[k].items)
            /\ \A j \in 1..Len(inv[k].items) :
                 inv'[k].body.items[j] =
                   [product_id |-> inv[k].items[j].product.id,
                    quantity |-> inv[k].items[j].quantity]
            /\ srvOrders' # srvOrders =>
                 srvOrders' = Append(srvOrders, inv'[k].body.items)]_vars

\* C26 witness: an order request is in flight with a line for every cached
\* item, and the address on the screen is no longer the one it was sent with.
OrderBuiltFromCachedCartWitness ==
  \E k \in InvIds :
    /\ inv[k].pc = "orderResp"
    /\ Len(inv[k].body.items) = MaxProducts
    /\ inv[k].body.shipping_address # <<>>
    /\ inv[k].mounted /\ address # inv[k].address

\* C27: the order request of an invocation goes out on the step at which
\* its own payment call has returned success, never before and never for
\* another result, and the service holds at most as many orders as it has
\* captured payments.
OrderAfterPayment ==
  /\ [][\A k \in InvIds :
          inv'[k].orderReqs > inv[k].orderReqs =>
            /\ inv[k].pc = "payResp" /\ inv[k].payReqs > 0
            /\ inv[k].payment = "success" /\ inv'[k].payment = "success"]_vars
  /\ [](Len(srvOrders) <= srvPayments)

\* C27 witness: an order stands recorded for every captured payment, the
\* last one from an invocation whose order request is still awaited.
OrderAfterPaymentWitness ==
  /\ srvOrders # <<>> /\ Len(srvOrders) = srvPayments
  /\ \E k \in InvIds : inv[k].pc = "orderResp" /\ inv[k].payment = "success"

\* No store operation is between its call and its return.
CartQuiet == \A c \in CallIds : calls[c].pc \in {"idle", "done"}

\* C28: when no cart operation is in flight and the operation that
\* returned last succeeded, with every request of it answered, the cached
\* items and total are those of the cart the service holds.
CacheMatchesServer ==
  (CartQuiet /\ settled.result = "ok" /\ ~settled.fetchFailed) =>
    /\ items = CartResponse(srvCart, srvGone).items
    /\ total = CartResponse(srvCart, srvGone).total

\* The status update of request r is awaited.
Updating(r) == reqs[r].pc = "putResp"

\* C29: while the status update of an order is awaited the marker
\* updatingId names that order, whatever starts or ends for other orders,
\* and no second update of the same order is awaited next to it.
UpdateMarkerHeld ==
  \A r \in ReqIds :
    Updating(r) =>
      /\ farmerUpdatingId = reqs[r].order
      /\ \A q \in ReqIds \ {r} : Updating(q) => reqs[q].order # reqs[r].order

\* No login, signup, logout or loadUser is between its call and its return.
AuthQuiet == \A a \in AuthIds : authCalls[a].op \in {"none", "api"}

\* C30: isAuthenticated is true exactly when user and token are both set,
\* and when no login, signup, logout or loadUser is in flight a token is
\* stored exactly when isAuthenticated is true.
SessionConsistent ==
  /\ isAuthenticated <=> (user # 0 /\ token # 0)
  /\ AuthQuiet => (storage # 0 <=> isAuthenticated)

====
